---------------------------- MODULE Spec2Model ----------------------------
(***************************************************************************)
(* A model of nbcelltests/lint.py: the lint_ rule functions, the           *)
(* orchestrator run, the external-linter bridge and the command-line       *)
(* entry point.                                                            *)
(*                                                                         *)
(* Python values are modelled as follows.                                  *)
(*   - a list is a sequence, a set is a set, an int is an integer;         *)
(*   - a dict is a function from its keys; a dict that is only compared    *)
(*     through .items() (the kernelspec) is the set of its <<key, value>>  *)
(*     items;                                                              *)
(*   - an argument that may be None, False or a container is a tagged      *)
(*     record: None, False, Set(S), Dict(items);                           *)
(*   - a str that the code inspects (the linter's output) is a sequence    *)
(*     of characters; the other strings are TLA+ strings;                  *)
(*   - a call either returns (ret, passed) or raises: Return, Raise.       *)
(***************************************************************************)
EXTENDS Integers, Sequences, FiniteSets, TLC

VARIABLES
    call,         \* the rule function last called directly, with its arguments
    result,       \* what that call returned or raised
    notebook,     \* the notebook run reads (what the extractor sees in it)
    rules,        \* the caller's rules argument of run
    lists,        \* the list objects that hold external commands, by owner
    executable,   \* run's executable parameter: None or a reference into lists
    caller,       \* who called run: "api" or "main"
    pc,           \* where the current run invocation stands
    ret,          \* run's local ret
    passed,       \* run's local passed
    tf_name,      \* run's local tf_name
    files,        \* the temporary files that exist
    argv,         \* the arguments the last subprocess was started with
    pending,      \* the exception in flight inside try/finally, or None
    outcome,      \* what the last finished run returned or raised
    exit_status   \* the exit status of the last command-line invocation

vars == <<call, result, notebook, rules, lists, executable, caller, pc, ret,
          passed, tf_name, files, argv, pending, outcome, exit_status>>

runVars == <<notebook, rules, lists, executable, caller, pc, ret, passed,
             tf_name, files, argv, pending, outcome, exit_status>>

-----------------------------------------------------------------------------
(* Bounds of the model.                                                    *)

MaxCells == 2        \* cells in the list given to lint_lines_per_cell
MaxNbCells == 1      \* cells in a notebook given to run
MaxLines == 2        \* lines in a cell
MaxCount == 2        \* function / class definitions in a notebook
MaxThreshold == 2    \* thresholds range over -MaxThreshold .. MaxThreshold
MaxRules == 2        \* rules the caller of run configures
MaxNoqa == 1         \* rules the notebook marks noqa
MaxOutput == 1       \* characters the linter writes to each of stdout, stderr
MaxRuns == 2         \* run invocations that are given the caller's command list

-----------------------------------------------------------------------------
(* Python values.                                                          *)

None == [tag |-> "None"]
False == [tag |-> "False"]
Set(S) == [tag |-> "set", val |-> S]
Dict(items) == [tag |-> "dict", val |-> items]

Ref(o) == [tag |-> "ref", val |-> o]
Str(s) == [tag |-> "str", val |-> s]
Num(n) == [tag |-> "int", val |-> n]

Return(r, p) == [ret |-> r, passed |-> p, status |-> "returned"]
Raise(e) == [status |-> "raised", error |-> e]

\* The sequences over S of length at most n.
SeqsUpTo(S, n) == UNION {[1..k -> S] : k \in 0..n}

\* The dicts with keys among K and values among V, as sets of items.
Dicts(K, V) ==
    {d \in SUBSET (K \X V) : \A x \in d, y \in d : x[1] = y[1] => x = y}

\* all(xs) of a list of booleans.
All(xs) == \A i \in 1..Len(xs) : xs[i]

-----------------------------------------------------------------------------
(* define.py, as lint.py uses it: LintMessage(cell, message, type, passed). *)
(* The message text is kept as the arguments that are formatted into it.   *)

LintMessage(cell, message, type, ok) ==
    [passed |-> ok, cell |-> cell, message |-> message, type |-> type]

\* The cell index of a message about the whole notebook.
NotebookLevel == -1

-----------------------------------------------------------------------------
(* The rule functions.                                                     *)

max_lines_per_cell_default == -1
max_cells_per_notebook_default == -1
max_function_definitions_default == -1
max_class_definitions_default == -1

\* lint_lines_per_cell with the index of enumerate itself as the cell index.
lint_lines_per_cell_zero_based(cell_lines, max_lines_per_cell) ==
    IF max_lines_per_cell < 0
    THEN Return(<<>>, TRUE)
    ELSE LET r == [k \in 1..Len(cell_lines) |->
                     LintMessage(k - 1,
                                 [max |-> max_lines_per_cell,
                                  actual |-> cell_lines[k]],
                                 "LINES_PER_CELL",
                                 cell_lines[k] <= max_lines_per_cell)]
         IN  Return(r, All([k \in 1..Len(r) |-> r[k].passed]))

lint_lines_per_cell(cell_lines, max_lines_per_cell) ==
    IF max_lines_per_cell < 0
    THEN Return(<<>>, TRUE)
    ELSE LET \* enumerate counts from 0 and the message carries i + 1: the
             \* k-th element of the sequence (k from 1) gets cell index k
             r == [k \in 1..Len(cell_lines) |->
                     LintMessage((k - 1) + 1,
                                 [max |-> max_lines_per_cell,
                                  actual |-> cell_lines[k]],
                                 "LINES_PER_CELL",
                                 cell_lines[k] <= max_lines_per_cell)]
         IN  Return(r, All([k \in 1..Len(r) |-> r[k].passed]))

lint_cells_per_notebook(cell_count, max_cells_per_notebook) ==
    IF max_cells_per_notebook < 0
    THEN Return(<<>>, TRUE)
    ELSE LET ok == cell_count <= max_cells_per_notebook
         IN  Return(<<LintMessage(NotebookLevel,
                                  [max |-> max_cells_per_notebook,
                                   actual |-> cell_count],
                                  "CELLS_PER_NOTEBOOK", ok)>>, ok)

lint_function_definitions(functions, max_function_definitions) ==
    IF max_function_definitions < 0
    THEN Return(<<>>, TRUE)
    ELSE LET ok == functions <= max_function_definitions
         IN  Return(<<LintMessage(NotebookLevel,
                                  [max |-> max_function_definitions,
                                   actual |-> functions],
                                  "FUNCTION_DEFINITIONS", ok)>>, ok)

\* lint_class_definitions with a threshold of 0 taken as disabled too.
lint_class_definitions_zero_disabled(classes, max_class_definitions) ==
    IF max_class_definitions <= 0
    THEN Return(<<>>, TRUE)
    ELSE LET ok == classes <= max_class_definitions
         IN  Return(<<LintMessage(NotebookLevel,
                                  [max |-> max_class_definitions,
                                   actual |-> classes],
                                  "CLASS_DEFINITIONS", ok)>>, ok)

lint_class_definitions(classes, max_class_definitions) ==
    IF max_class_definitions < 0
    THEN Return(<<>>, TRUE)
    ELSE LET ok == classes <= max_class_definitions
         IN  Return(<<LintMessage(NotebookLevel,
                                  [max |-> max_class_definitions,
                                   actual |-> classes],
                                  "CLASS_DEFINITIONS", ok)>>, ok)

\* kernelspec is the set of the kernelspec dict's items. None has no
\* method items: the call on line 69 raises AttributeError.
lint_kernelspec(kernelspec, kernelspec_requirements) ==
    IF kernelspec_requirements.tag = "False"
    THEN Return(<<>>, TRUE)
    ELSE IF kernelspec_requirements.tag = "None"
    THEN Raise("AttributeError")
    ELSE LET ok == kernelspec_requirements.val \subseteq kernelspec
         IN  Return(<<LintMessage(NotebookLevel,
                                  [actual |-> kernelspec,
                                   required |-> kernelspec_requirements.val],
                                  "KERNELSPEC", ok)>>, ok)

\* lint_magics that tests the lists for truth: an empty list is taken as
\* not supplied.
lint_magics_truthiness(magics, whitelist, blacklist) ==
    LET given(l) == l.tag # "None" /\ l.val # {}
    IN  IF ~given(whitelist) /\ ~given(blacklist)
        THEN Return(<<>>, TRUE)
        ELSE IF given(whitelist) /\ given(blacklist)
        THEN Raise("ValueError")
        ELSE LET bad == IF given(whitelist)
                        THEN magics \ whitelist.val
                        ELSE magics \cap blacklist.val
                 msg == IF given(whitelist)
                        THEN "missing from whitelist:"
                        ELSE "present in blacklist:"
                 ok == (bad = {})
             IN  Return(<<LintMessage(NotebookLevel,
                                      IF bad # {}
                                      THEN [bad |-> bad, msg |-> msg]
                                      ELSE [bad |-> {}, msg |-> ""],
                                      "MAGICS", ok)>>, ok)

lint_magics(magics, whitelist, blacklist) ==
    IF whitelist.tag = "None" /\ blacklist.tag = "None"
    THEN Return(<<>>, TRUE)
    ELSE IF whitelist.tag # "None" /\ blacklist.tag # "None"
    THEN Raise("ValueError")
    ELSE LET bad == IF whitelist.tag # "None"
                    THEN magics \ whitelist.val
                    ELSE magics \cap blacklist.val
             msg == IF whitelist.tag # "None"
                    THEN "missing from whitelist:"
                    ELSE "present in blacklist:"
             ok == (bad = {})
         IN  Return(<<LintMessage(NotebookLevel,
                                  IF bad # {}
                                  THEN [bad |-> bad, msg |-> msg]
                                  ELSE [bad |-> {}, msg |-> ""],
                                  "MAGICS", ok)>>, ok)

-----------------------------------------------------------------------------
(* Inputs of the rule functions.                                           *)

Thresholds == (0 - MaxThreshold) .. MaxThreshold
CellLines == SeqsUpTo(0..MaxLines, MaxCells)
Counts == 0..MaxCount
KernelKeys == {"name", "language"}
KernelValues == {"python3", "ir"}
Kernelspecs == Dicts(KernelKeys, KernelValues)
MagicNames == {"timeit", "bash"}
OptionalSets == {None} \cup {Set(S) : S \in SUBSET MagicNames}
Requirements == {False, None} \cup {Dict(d) : d \in Kernelspecs}

-----------------------------------------------------------------------------
(* Direct calls of the rule functions.                                     *)

Apply(fn, args, res) ==
    /\ call' = [fn |-> fn, args |-> args]
    /\ result' = res
    /\ UNCHANGED runVars

CallLinesPerCell ==
    \E cl \in CellLines :
        \/ \E t \in Thresholds :
               Apply("lint_lines_per_cell", <<cl, t>>, lint_lines_per_cell(cl, t))
        \/ Apply("lint_lines_per_cell", <<cl>>,
                 lint_lines_per_cell(cl, max_lines_per_cell_default))

CallCellsPerNotebook ==
    \E n \in Counts :
        \/ \E t \in Thresholds :
               Apply("lint_cells_per_notebook", <<n, t>>,
                     lint_cells_per_notebook(n, t))
        \/ Apply("lint_cells_per_notebook", <<n>>,
                 lint_cells_per_notebook(n, max_cells_per_notebook_default))

CallFunctionDefinitions ==
    \E n \in Counts :
        \/ \E t \in Thresholds :
               Apply("lint_function_definitions", <<n, t>>,
                     lint_function_definitions(n, t))
        \/ Apply("lint_function_definitions", <<n>>,
                 lint_function_definitions(n, max_function_definitions_default))

CallClassDefinitions ==
    \E n \in Counts :
        \/ \E t \in Thresholds :
               Apply("lint_class_definitions", <<n, t>>,
                     lint_class_definitions(n, t))
        \/ Apply("lint_class_definitions", <<n>>,
                 lint_class_definitions(n, max_class_definitions_default))

CallKernelspec ==
    \E ks \in Kernelspecs :
        \/ \E req \in Requirements :
               Apply("lint_kernelspec", <<ks, req>>, lint_kernelspec(ks, req))
        \/ Apply("lint_kernelspec", <<ks>>, lint_kernelspec(ks, False))

CallMagics ==
    \E m \in SUBSET MagicNames, wl \in OptionalSets, bl \in OptionalSets :
        Apply("lint_magics", <<m, wl, bl>>, lint_magics(m, wl, bl))

-----------------------------------------------------------------------------
(* shared.extract_extrametadata: the mapping the extractor returns for a    *)
(* notebook: the line count of each cell, the number of cells, the numbers *)
(* of function and class definitions, the kernelspec, the magics used and  *)
(* the set of rules marked noqa.                                           *)

extract_extrametadata(nb) ==
    [cell_lines |-> nb.cells,
     cell_count |-> Len(nb.cells),
     functions |-> nb.functions,
     classes |-> nb.classes,
     kernelspec |-> nb.kernelspec,
     magics |-> nb.magics,
     noqa |-> nb.noqa]

-----------------------------------------------------------------------------
(* run, lines 97 to 140: the rules.                                        *)

\* d.update(u)
Update(d, u) ==
    [k \in DOMAIN d \cup DOMAIN u |-> IF k \in DOMAIN u THEN u[k] ELSE d[k]]

\* d.get(k, None)
Get(d, k) == IF k \in DOMAIN d THEN d[k] ELSE None

\* del d[k] for every k of keys
Delete(d, keys) == [k \in DOMAIN d \ keys |-> d[k]]

\* rules_to_remove computed before the caller's rules are merged: only the
\* keys the notebook itself sets are removed.
rules_to_remove_before_merge(extra_metadata) ==
    extra_metadata["noqa"] \cap {"cell_lines", "cell_count", "functions",
                                 "classes", "kernelspec", "magics", "noqa"}

rules_to_remove(extra_metadata) ==
    extra_metadata["noqa"] \cap DOMAIN extra_metadata

\* passed starting as False.
InitialResultFailed == Return(<<>>, FALSE)

\* ret = [] and passed = True
InitialResult == Return(<<>>, TRUE)

\* ret.extend(lintret); passed = passed and lintfail. An exception leaves
\* run at once: nothing after it is evaluated.
Extend(acc, lint) ==
    IF acc.status = "raised" THEN acc
    ELSE IF lint.status = "raised" THEN lint
    ELSE Return(acc.ret \o lint.ret, acc.passed /\ lint.passed)

\* A rule that is not in extra_metadata is not evaluated.
NotEvaluated == Return(<<>>, TRUE)

RunRules(nb, rl) ==
    LET merged == Update(extract_extrametadata(nb), rl)
        em == Delete(merged, rules_to_remove(merged))
        has(k) == k \in DOMAIN em
        r1 == IF has("lines_per_cell")
              THEN lint_lines_per_cell(em["cell_lines"], em["lines_per_cell"])
              ELSE NotEvaluated
        r2 == IF has("cells_per_notebook")
              THEN lint_cells_per_notebook(em["cell_count"],
                                           em["cells_per_notebook"])
              ELSE NotEvaluated
        r3 == IF has("function_definitions")
              THEN lint_function_definitions(em["functions"],
                                             em["function_definitions"])
              ELSE NotEvaluated
        r4 == IF has("class_definitions")
              THEN lint_class_definitions(em["classes"], em["class_definitions"])
              ELSE NotEvaluated
        r5 == IF has("kernelspec_requirements")
              THEN lint_kernelspec(em["kernelspec"],
                                   em["kernelspec_requirements"])
              ELSE NotEvaluated
        r6 == IF has("magics_whitelist") \/ has("magics_blacklist")
              THEN lint_magics(em["magics"], Get(em, "magics_whitelist"),
                               Get(em, "magics_blacklist"))
              ELSE NotEvaluated
    IN  Extend(Extend(Extend(Extend(Extend(Extend(InitialResult,
            r1), r2), r3), r4), r5), r6)

-----------------------------------------------------------------------------
(* run, lines 142 to 157: the external linter.                             *)

\* if executable: None and the empty list are false.
Truthy(exe, ls) == exe.tag # "None" /\ ls[exe.val] # <<>>

Whitespace == {" ", "\t", "\n"}

RECURSIVE lstrip(_)
lstrip(s) ==
    IF s # <<>> /\ Head(s) \in Whitespace THEN lstrip(Tail(s)) ELSE s

RECURSIVE rstrip(_)
rstrip(s) ==
    IF s # <<>> /\ s[Len(s)] \in Whitespace
    THEN rstrip(SubSeq(s, 1, Len(s) - 1))
    ELSE s

\* str.strip()
strip(s) == rstrip(lstrip(s))

\* msg = ret2.stdout + '\t' + ret2.stderr, and the message made of it
LinterMessage(stdout, stderr) ==
    LET msg == stdout \o <<"\t">> \o stderr
    IN  LintMessage(NotebookLevel, strip(msg), "LINTER",
                    IF strip(msg) # <<>> THEN FALSE ELSE TRUE)

\* os.remove(tf_name) after the try block instead of in a finally clause:
\* skipped when an exception is in flight.
RemoveUnlessRaised(fs, name, exc) == IF exc = None THEN fs \ {name} ELSE fs

\* finally: os.remove(tf_name), whether or not an exception is in flight
Remove(fs, name, exc) == fs \ {name}

\* sys.exit(0) if passed else sys.exit(1); an uncaught exception ends the
\* interpreter with status 1
ExitStatus(res) ==
    IF res.status = "raised" THEN Num(1)
    ELSE IF res.passed THEN Num(0) ELSE Num(1)

-----------------------------------------------------------------------------
(* Inputs of run.                                                          *)

RuleKeys == {"lines_per_cell", "cells_per_notebook", "function_definitions",
             "class_definitions", "kernelspec_requirements",
             "magics_whitelist", "magics_blacklist"}

RunKernelspecs == Dicts({"name"}, {"python3"})

\* The values a caller gives a rule: a disabled or a strict threshold; a
\* kernelspec requirement; a list of magics.
RuleValues(k) ==
    IF k \in {"lines_per_cell", "cells_per_notebook", "function_definitions",
              "class_definitions"}
    THEN {-1, 0}
    ELSE IF k = "kernelspec_requirements"
    THEN {False, None, Dict({<<"name", "python3">>})}
    ELSE IF k = "magics_whitelist"
    THEN {Set({"timeit"})}
    ELSE {Set({"bash"})}

\* The rule configurations that give a value to each key of K.
RECURSIVE ConfigsOver(_)
ConfigsOver(K) ==
    IF K = {}
    THEN {<<>>}
    ELSE LET k == CHOOSE x \in K : TRUE
         IN  {c @@ (k :> v) : c \in ConfigsOver(K \ {k}), v \in RuleValues(k)}

\* The rule configurations with at most n rules.
Configs(n) ==
    UNION {ConfigsOver(K) : K \in {S \in SUBSET RuleKeys : Cardinality(S) <= n}}

Notebooks ==
    [functions : {0, MaxCount},
     classes : {0, MaxCount},
     kernelspec : RunKernelspecs,
     magics : SUBSET MagicNames,
     cells : SeqsUpTo({MaxLines}, MaxNbCells),
     noqa : {S \in SUBSET RuleKeys : Cardinality(S) <= MaxNoqa}]

\* The command an API caller builds once and hands to every run.
ApiCommand == <<"flake8">>

\* run(notebook, ['flake8', '--ignore=W391'])
MainCommand == <<"flake8", "--ignore=W391">>

TmpNames == {"/tmp/tmpa.py", "/tmp/tmpb.py"}
Outputs == SeqsUpTo({"\n", "E"}, MaxOutput)

-----------------------------------------------------------------------------
(* The steps of run.                                                       *)

\* How a finished run leaves: to its caller, or out of the program.
Finish(c, res) ==
    /\ outcome' = res
    /\ pc' = "idle"
    /\ pending' = None
    /\ executable' = None
    /\ ret' = <<>>
    /\ passed' = TRUE
    /\ tf_name' = None
    /\ argv' = <<>>
    /\ exit_status' = IF c = "main" THEN ExitStatus(res) ELSE exit_status

\* Lines 97 to 146: the rules, and with an executable the temporary file.
\* ls is the heap of command lists as the caller leaves it.
Enter(c, exe, ls, rl) ==
    LET r == RunRules(notebook, rl)
    IN  /\ pc = "idle"
        /\ caller' = c
        /\ IF r.status = "raised" \/ ~Truthy(exe, ls)
           THEN /\ Finish(c, r)
                /\ lists' = [ls EXCEPT !["main"] = <<>>]
                /\ UNCHANGED files
           ELSE \E name \in TmpNames \ files :
                    /\ executable' = exe
                    /\ ret' = r.ret
                    /\ passed' = r.passed
                    /\ tf_name' = Str(name)
                    /\ files' = files \cup {name}
                    /\ lists' = ls
                    /\ pc' = "try"
                    /\ outcome' = None
                    /\ exit_status' = IF c = "main" THEN None ELSE exit_status
                    /\ UNCHANGED <<pending, argv>>
        /\ UNCHANGED <<call, result, notebook, rules>>

\* run(notebook, rules=rules): no executable.
Run == Enter("api", None, lists, rules)

\* run(notebook, executable, rules) with the caller's command list.
RunLint ==
    /\ Len(lists["api"]) < Len(ApiCommand) + MaxRuns
    /\ Enter("api", Ref("api"), lists, rules)

\* python -m nbcelltests.lint <args>: a fresh command list, no rules.
Main ==
    \E nargs \in 1..3 :
        IF nargs # 2
        THEN /\ pc = "idle"
             /\ caller' = "main"
             /\ Finish("main", Raise("Exception"))
             /\ UNCHANGED <<call, result, notebook, rules, lists, files>>
        ELSE Enter("main", Ref("main"),
                   [lists EXCEPT !["main"] = MainCommand], <<>>)

\* Lines 148 to 150: write and close the file, append its name.
Write ==
    /\ pc = "try"
    /\ \/ /\ lists' = [lists EXCEPT ![executable.val] = Append(@, tf_name.val)]
          /\ pc' = "subprocess"
          /\ UNCHANGED pending
       \/ /\ pending' = Raise("UnicodeEncodeError")
          /\ pc' = "finally"
          /\ UNCHANGED lists
    /\ UNCHANGED <<call, result, notebook, rules, executable, caller, ret,
                   passed, tf_name, files, argv, outcome, exit_status>>

\* Lines 151 to 153: the subprocess and its message. The exit status of
\* the subprocess is not read.
Subprocess ==
    /\ pc = "subprocess"
    /\ argv' = lists[executable.val]
    /\ \/ /\ pending' = Raise("FileNotFoundError")
          /\ UNCHANGED ret
       \/ \E stdout \in Outputs, stderr \in Outputs :
              /\ ret' = Append(ret, LinterMessage(stdout, stderr))
              /\ UNCHANGED pending
    /\ pc' = "finally"
    /\ UNCHANGED <<call, result, notebook, rules, lists, executable, caller,
                   passed, tf_name, files, outcome, exit_status>>

\* Lines 154 to 157: remove the file, then return or let the exception go.
Finally ==
    /\ pc = "finally"
    /\ files' = Remove(files, tf_name.val, pending)
    /\ Finish(caller,
              IF pending = None THEN Return(ret, passed) ELSE pending)
    /\ lists' = [lists EXCEPT !["main"] = <<>>]
    /\ UNCHANGED <<call, result, notebook, rules, caller>>

-----------------------------------------------------------------------------
(* The specifications.                                                     *)

InitLocals ==
    /\ executable = None
    /\ caller = "api"
    /\ pc = "idle"
    /\ ret = <<>>
    /\ passed = TRUE
    /\ tf_name = None
    /\ files = {}
    /\ argv = <<>>
    /\ pending = None
    /\ outcome = None
    /\ exit_status = None

InitCalls ==
    /\ call = [fn |-> "none", args |-> <<>>]
    /\ result = None

\* Direct calls of the rule functions.
InitRules ==
    /\ InitCalls
    /\ InitLocals
    /\ notebook \in {nb \in Notebooks : nb.cells = <<>> /\ nb.functions = 0
                        /\ nb.classes = 0 /\ nb.kernelspec = {}
                        /\ nb.magics = {} /\ nb.noqa = {}}
    /\ rules = <<>>
    /\ lists = [api |-> <<>>, main |-> <<>>]

NextRules ==
    \/ CallLinesPerCell
    \/ CallCellsPerNotebook
    \/ CallFunctionDefinitions
    \/ CallClassDefinitions
    \/ CallKernelspec
    \/ CallMagics

SpecRules == InitRules /\ [][NextRules]_vars

\* run without an executable, on every notebook and rule configuration.
InitRun ==
    /\ InitCalls
    /\ InitLocals
    /\ notebook \in Notebooks
    /\ rules \in Configs(MaxRules)
    /\ lists = [api |-> <<>>, main |-> <<>>]

NextRun == Run

SpecRun == InitRun /\ [][NextRun]_vars

\* run without an executable, on the configurations of the kernelspec and
\* magics rules.
InitMagics ==
    /\ InitCalls
    /\ InitLocals
    /\ notebook \in Notebooks
    /\ rules \in UNION {ConfigsOver(K) :
                        K \in SUBSET {"kernelspec_requirements",
                                      "magics_whitelist", "magics_blacklist"}}
    /\ lists = [api |-> <<>>, main |-> <<>>]

NextMagics == Run

SpecMagics == InitMagics /\ [][NextMagics]_vars

\* run with and without an executable, and the command line.
Init ==
    /\ InitCalls
    /\ InitLocals
    /\ notebook \in {nb \in Notebooks : nb.functions = 0 /\ nb.classes = 0
                        /\ nb.kernelspec = {} /\ nb.magics = {}
                        /\ nb.noqa = {}}
    /\ rules \in UNION {ConfigsOver(K) : K \in SUBSET {"lines_per_cell"}}
    /\ lists \in [api : {<<>>, ApiCommand}, main : {<<>>}]

Next ==
    \/ Run
    \/ RunLint
    \/ Main
    \/ Write
    \/ Subprocess
    \/ Finally

Spec == Init /\ [][Next]_vars

-----------------------------------------------------------------------------
(* The claims about the rule functions, under SpecRules.                   *)

NumericRules == {"lint_lines_per_cell", "lint_cells_per_notebook",
                 "lint_function_definitions", "lint_class_definitions"}

\* C2: lint_kernelspec with requirements None never raises and returns
\* exactly one KERNELSPEC message, whose passed flag is the overall flag and
\* is true iff the kernelspec is empty.
C2_NoneRequiresEmptyKernelspec ==
    (call.fn = "lint_kernelspec" /\ Len(call.args) = 2 /\ call.args[2] = None)
    => /\ result.status = "returned"
       /\ Len(result.ret) = 1
       /\ result.ret[1].type = "KERNELSPEC"
       /\ result.ret[1].passed = result.passed
       /\ result.passed <=> (call.args[1] = {})

\* C4: each numeric rule function, given a negative threshold or none,
\* returns no message and passed = true whatever the actual values are;
\* given the threshold 0 it is enabled: it returns its messages (one per
\* cell, or one for the notebook), each passing iff its actual count is 0.
C4_NegativeThresholdDisables ==
    call.fn \in NumericRules
    => /\ (Len(call.args) = 1 \/ call.args[2] < 0)
          => /\ result.status = "returned"
             /\ result.ret = <<>>
             /\ result.passed = TRUE
       /\ (Len(call.args) = 2 /\ call.args[2] = 0)
          => /\ result.status = "returned"
             /\ IF call.fn = "lint_lines_per_cell"
                THEN /\ Len(result.ret) = Len(call.args[1])
                     /\ \A k \in 1..Len(result.ret) :
                            result.ret[k].passed <=> (call.args[1][k] = 0)
                ELSE /\ Len(result.ret) = 1
                     /\ result.ret[1].passed <=> (call.args[1] = 0)
             /\ result.passed <=> \A k \in 1..Len(result.ret) :
                                      result.ret[k].passed

\* C4's case: a negative threshold on cells that have lines, and a threshold
\* of 0 that fails a class count.
C4_Witness ==
    \/ /\ call.fn = "lint_lines_per_cell"
       /\ Len(call.args) = 2
       /\ call.args[2] < 0
       /\ \E k \in 1..Len(call.args[1]) : call.args[1][k] > 0
       /\ result.ret = <<>>
    \/ /\ call.fn = "lint_class_definitions"
       /\ Len(call.args) = 2
       /\ call.args[2] = 0
       /\ call.args[1] > 0
       /\ ~result.passed

\* C6: lint_magics with neither list returns ([], True); with exactly one
\* list (an empty one counts) it returns exactly one MAGICS message with
\* cell index -1, whose passed flag is the overall flag and is true iff no
\* magic is outside the whitelist, or none is in the blacklist.
C6_MagicsOneList ==
    call.fn = "lint_magics"
    => LET magics == call.args[1]
           whitelist == call.args[2]
           blacklist == call.args[3]
       IN  /\ (whitelist = None /\ blacklist = None)
              => /\ result.status = "returned"
                 /\ result.ret = <<>>
                 /\ result.passed = TRUE
           /\ ((whitelist = None) # (blacklist = None))
              => /\ result.status = "returned"
                 /\ Len(result.ret) = 1
                 /\ result.ret[1].type = "MAGICS"
                 /\ result.ret[1].cell = -1
                 /\ result.ret[1].passed = result.passed
                 /\ result.passed <=>
                      IF whitelist # None
                      THEN \A m \in magics : m \in whitelist.val
                      ELSE \A m \in magics : m \notin blacklist.val

\* C6's case: an empty whitelist is supplied and a magic is used.
C6_Witness ==
    /\ call.fn = "lint_magics"
    /\ call.args[1] # {}
    /\ call.args[2] = Set({})
    /\ call.args[3] = None
    /\ result.status = "returned"
    /\ Len(result.ret) = 1
    /\ ~result.passed

\* C8: lint_lines_per_cell with a threshold max >= 0 returns one message
\* per cell; the k-th (k from 1) has cell index k and passed = (k-th count
\* <= max); the overall flag is the AND of the per-cell flags.
C8_OneMessagePerCell ==
    (call.fn = "lint_lines_per_cell" /\ Len(call.args) = 2
        /\ call.args[2] >= 0)
    => /\ result.status = "returned"
       /\ Len(result.ret) = Len(call.args[1])
       /\ \A k \in 1..Len(call.args[1]) :
              /\ result.ret[k].cell = k
              /\ result.ret[k].type = "LINES_PER_CELL"
              /\ result.ret[k].passed <=> (call.args[1][k] <= call.args[2])
       /\ result.passed <=> \A k \in 1..Len(call.args[1]) :
                                call.args[1][k] <= call.args[2]

\* C8's case: two cells, one within the threshold and one over it.
C8_Witness ==
    /\ call.fn = "lint_lines_per_cell"
    /\ Len(call.args) = 2
    /\ call.args[2] >= 0
    /\ Len(call.args[1]) = 2
    /\ result.ret[1].passed
    /\ ~result.ret[2].passed
    /\ ~result.passed

-----------------------------------------------------------------------------
(* The claims about the rules of run, under SpecRun and SpecMagics.        *)

\* The type of the message a rule key's rule produces.
TypeOf(k) ==
    CASE k = "lines_per_cell" -> "LINES_PER_CELL"
      [] k = "cells_per_notebook" -> "CELLS_PER_NOTEBOOK"
      [] k = "function_definitions" -> "FUNCTION_DEFINITIONS"
      [] k = "class_definitions" -> "CLASS_DEFINITIONS"
      [] k = "kernelspec_requirements" -> "KERNELSPEC"
      [] OTHER -> "MAGICS"

\* The other magics list of a magics list key.
OtherList(k) ==
    IF k = "magics_whitelist" THEN "magics_blacklist" ELSE "magics_whitelist"

HasMessageOfType(res, t) ==
    /\ res.status = "returned"
    /\ \E i \in 1..Len(res.ret) : res.ret[i].type = t

\* The rule keys that are configured and marked noqa.
Suppressed == RuleKeys \cap DOMAIN rules \cap notebook.noqa

\* C3, as stated: for every rule key in the merged configuration and in the
\* noqa set, run produces no message of that rule's type, and its result is
\* the one it has when the rule is not configured.
C3_NoqaNoMessageOfType ==
    outcome # None
    => \A k \in Suppressed :
           /\ ~HasMessageOfType(outcome, TypeOf(k))
           /\ outcome = RunRules(notebook, Delete(rules, {k}))

\* C3, amended: for every rule key in the merged configuration and in the
\* noqa set, the result of run (its messages and overall flag, or the error
\* it raises) is the one it has when the key is not configured, and run
\* produces no message of that rule's type, unless the key is one of the
\* two magics lists and the other list is configured and not marked noqa.
C3_NoqaSuppresses ==
    outcome # None
    => \A k \in Suppressed :
           /\ outcome = RunRules(notebook, Delete(rules, {k}))
           /\ HasMessageOfType(outcome, TypeOf(k))
              => /\ TypeOf(k) = "MAGICS"
                 /\ OtherList(k) \in DOMAIN rules \ notebook.noqa

\* C3's case: the caller forces a threshold of 0 on function definitions,
\* the notebook defines functions and marks the rule noqa, and run passes
\* with no message.
C3_Witness ==
    /\ outcome = Return(<<>>, TRUE)
    /\ DOMAIN rules = {"function_definitions"}
    /\ rules["function_definitions"] = 0
    /\ notebook.functions > 0
    /\ notebook.noqa = {"function_definitions"}

\* C5: run with no rule configuration and no executable returns ([], True)
\* whatever the notebook holds and marks noqa.
C5_NoRulesNoMessages ==
    (outcome # None /\ DOMAIN rules = {}) => outcome = Return(<<>>, TRUE)

\* C5's case: a notebook with cells, magics and a noqa mark, run with no
\* rules.
C5_Witness ==
    /\ outcome # None
    /\ DOMAIN rules = {}
    /\ notebook.cells # <<>>
    /\ notebook.magics # {}
    /\ notebook.noqa # {}

\* The magics lists that are configured and not marked noqa.
RemainingLists ==
    {"magics_whitelist", "magics_blacklist"} \cap (DOMAIN rules \ notebook.noqa)

\* C7: run raises the configuration error exactly when both magics lists
\* remain after the noqa removal; when noqa removes one of the two, run
\* does not raise and evaluates the magics rule with the remaining list.
C7_ConfigurationError ==
    outcome # None
    => /\ (outcome = Raise("ValueError")) <=> (Cardinality(RemainingLists) = 2)
       /\ ({"magics_whitelist", "magics_blacklist"} \subseteq DOMAIN rules
             /\ Cardinality(RemainingLists) = 1)
          => /\ outcome.status = "returned"
             /\ \E i \in 1..Len(outcome.ret) :
                    <<outcome.ret[i]>> =
                        lint_magics(notebook.magics,
                                    IF "magics_whitelist" \in RemainingLists
                                    THEN rules["magics_whitelist"] ELSE None,
                                    IF "magics_blacklist" \in RemainingLists
                                    THEN rules["magics_blacklist"] ELSE None).ret

-----------------------------------------------------------------------------
(* The claims about the external linter and the command line, under Spec.  *)

\* C1: the command line exits 0 exactly when every message run returns has
\* passed = true, the LINTER message included.
C1_ExitStatusReflectsAllChecks ==
    (caller = "main" /\ pc = "idle" /\ outcome # None
        /\ outcome.status = "returned")
    => (exit_status = Num(0)
          <=> \A i \in 1..Len(outcome.ret) : outcome.ret[i].passed)

\* C9: when no run is in progress no temporary file exists, whichever way
\* the last run left; while run is between the creation of its file and its
\* finally clause, its own file is the only one.
C9_TempFileRemoved ==
    /\ pc = "idle" => files = {}
    /\ pc # "idle" => files = {tf_name.val}

\* C9's case: run has created its file and has left with an exception, from
\* the write or from the launch of the subprocess.
C9_Witness ==
    /\ pc = "idle"
    /\ outcome \in {Raise("FileNotFoundError"), Raise("UnicodeEncodeError")}
    /\ files = {}

\* C10: every subprocess is started with the caller's original command
\* followed by exactly one more argument, the name of the temporary file of
\* its own run.
C10_CommandPlusOwnFile ==
    (pc = "finally" /\ argv # <<>>)
    => argv = (IF caller = "main" THEN MainCommand ELSE ApiCommand)
                  \o <<tf_name.val>>

=============================================================================
